---- MODULE Spec2Model ----
(***************************************************************************)
(* The grammar reducer of src/typer.ts: typing(entities) folds a parsed    *)
(* CSS value-definition grammar into an insertion-ordered, deduplicated    *)
(* list of type descriptors.  The recursion of typing (into groups and     *)
(* into quoted property references) is modelled by an explicit call stack  *)
(* of frames, one step of the for-loop per action.                         *)
(***************************************************************************)
EXTENDS Integers, Sequences, FiniteSets, TLC

VARIABLES entities, properties, stack, pc, op, result, arg

vars == <<entities, properties, stack, pc, op, result, arg>>

(***************************************************************************)
(* Bounds of the model.                                                    *)
(***************************************************************************)
\* longest entity sequence of the gate family, counted in components
MaxItems == 3
\* longest entity sequence of the wide family, counted in components
MaxWide == 2
\* depth of the call stack at which the engine throws RangeError
StackLimit == 6
\* longest descriptor list built by repeated addType in SpecAdd
MaxTypes == 3

(***************************************************************************)
(* Strings are sequences of one-character strings, so that the numeric     *)
(* round trip String(Number(value)) === value is computed, not assumed.    *)
(***************************************************************************)
Digits == <<"0", "1", "2", "3", "4", "5", "6", "7", "8", "9">>

DigitSet == {Digits[k] : k \in 1..10}

DigitVal(c) == (CHOOSE k \in 1..10 : Digits[k] = c) - 1

RECURSIVE DecVal(_)
DecVal(s) == IF s = <<>> THEN 0
             ELSE 10 * DecVal(SubSeq(s, 1, Len(s) - 1)) + DigitVal(s[Len(s)])

RECURSIVE DecStr(_)
DecStr(n) == IF n < 10 THEN <<Digits[n + 1]>>
             ELSE DecStr(n \div 10) \o <<Digits[(n % 10) + 1]>>

\* JavaScript numbers: a finite integer, an infinity, or NaN
NaN == [k |-> "nan", v |-> 0]

NoNum == [k |-> "none", v |-> 0]

Finite(n) == [k |-> "int", v |-> n]

Inf(sgn) == [k |-> "inf", v |-> sgn]

strNaN == <<"N", "a", "N">>

strInfinity == <<"I", "n", "f", "i", "n", "i", "t", "y">>

IsDigits(s) == Len(s) > 0 /\ \A k \in 1..Len(s) : s[k] \in DigitSet

\* Number(value): StringToNumber over sign, decimal digits and Infinity;
\* the empty string is 0 and everything else is NaN
Number(s) ==
  LET signed == Len(s) > 0 /\ s[1] \in {"+", "-"}
      body   == IF signed THEN Tail(s) ELSE s
      sgn    == IF signed /\ s[1] = "-" THEN -1 ELSE 1
  IN  IF s = <<>> THEN Finite(0)
      ELSE IF body = strInfinity THEN Inf(sgn)
      ELSE IF IsDigits(body) THEN Finite(sgn * DecVal(body))
      ELSE NaN

\* String(number)
String(n) ==
  IF n.k = "nan" THEN strNaN
  ELSE IF n.k = "inf" THEN (IF n.v < 0 THEN <<"-">> ELSE <<>>) \o strInfinity
  ELSE IF n.v < 0 THEN <<"-">> \o DecStr(0 - n.v)
  ELSE DecStr(n.v)

\* a === b on numbers: NaN is not equal to anything, itself included
NumStrictEq(a, b) == a.k # "nan" /\ b.k # "nan" /\ a = b

(***************************************************************************)
(* Type descriptors (enum Type, interfaces IBasic .. INumericLiteral).     *)
(***************************************************************************)
TString == [type |-> "String", literal |-> <<>>, num |-> NoNum, name |-> <<>>]

TNumber == [type |-> "Number", literal |-> <<>>, num |-> NoNum, name |-> <<>>]

TLength == [type |-> "Length", literal |-> <<>>, num |-> NoNum, name |-> <<>>]

TStringLiteral(lit) ==
  [type |-> "StringLiteral", literal |-> lit, num |-> NoNum, name |-> <<>>]

TNumericLiteral(n) ==
  [type |-> "NumericLiteral", literal |-> <<>>, num |-> n, name |-> <<>>]

TDataType(nm) ==
  [type |-> "DataType", literal |-> <<>>, num |-> NoNum, name |-> nm]

\* types.every(p) is a quantification over the positions of types
addLength(types) ==
  IF \A k \in 1..Len(types) : types[k].type # "Length"
  THEN Append(types, TLength) ELSE types

addString(types) ==
  IF \A k \in 1..Len(types) : types[k].type # "String"
  THEN Append(types, TString) ELSE types

addNumber(types) ==
  IF \A k \in 1..Len(types) : types[k].type # "Number"
  THEN Append(types, TNumber) ELSE types

addStringLiteral(types, literal) ==
  IF \A k \in 1..Len(types) :
       ~(types[k].type = "StringLiteral" /\ types[k].literal = literal)
  THEN Append(types, TStringLiteral(literal)) ELSE types

\* the comparison of addNumericLiteral, type.literal === literal
NumericLiteralEq(a, b) == NumStrictEq(a, b)

addNumericLiteral(types, literal) ==
  IF \A k \in 1..Len(types) :
       ~(types[k].type = "NumericLiteral" /\ NumericLiteralEq(types[k].num, literal))
  THEN Append(types, TNumericLiteral(literal)) ELSE types

addDataType(types, name) ==
  IF \A k \in 1..Len(types) :
       ~(types[k].type = "DataType" /\ types[k].name = name)
  THEN Append(types, TDataType(name)) ELSE types

addType(types, type) ==
  CASE type.type = "Length"         -> addLength(types)
    [] type.type = "String"         -> addString(types)
    [] type.type = "Number"         -> addNumber(types)
    [] type.type = "StringLiteral"  -> addStringLiteral(types, type.literal)
    [] type.type = "NumericLiteral" -> addNumericLiteral(types, type.num)
    [] type.type = "DataType"       -> addDataType(types, type.name)

\* for (const type of ts) types = addType(types, type)
RECURSIVE addAll(_, _)
addAll(types, ts) ==
  IF ts = <<>> THEN types
  ELSE addAll(addType(types, Head(ts)), Tail(ts))

(***************************************************************************)
(* Entities (EntityType of ./parser).  Every record carries all fields;    *)
(* ref is the identity of the object, which is what indexOf compares.      *)
(***************************************************************************)
NoMultiplier == [sign |-> "None", min |-> 0, max |-> 0]

Sign(s) == [sign |-> s, min |-> 0, max |-> 0]

CurlyBracet(lo, hi) == [sign |-> "CurlyBracet", min |-> lo, max |-> hi]

Undefined ==
  [entity |-> "Undefined", component |-> "None", combinator |-> "None",
   value |-> <<>>, entities |-> <<>>, multiplier |-> NoMultiplier, ref |-> 0]

Keyword(v, m) ==
  [entity |-> "Component", component |-> "Keyword", combinator |-> "None",
   value |-> v, entities |-> <<>>, multiplier |-> m, ref |-> 0]

DataType(v, m) ==
  [entity |-> "Component", component |-> "DataType", combinator |-> "None",
   value |-> v, entities |-> <<>>, multiplier |-> m, ref |-> 0]

Group(es, m) ==
  [entity |-> "Component", component |-> "Group", combinator |-> "None",
   value |-> <<>>, entities |-> es, multiplier |-> m, ref |-> 0]

Function(m) ==
  [entity |-> "Function", component |-> "None", combinator |-> "None",
   value |-> <<>>, entities |-> <<>>, multiplier |-> m, ref |-> 0]

CombinatorEntity(c) ==
  [entity |-> "Combinator", component |-> "None", combinator |-> c,
   value |-> <<>>, entities |-> <<>>, multiplier |-> NoMultiplier, ref |-> 0]

isFunction(entity) == entity.entity = "Function"

isComponent(entity) == entity.entity = "Component"

isCombinator(entity) == entity.entity = "Combinator"

isCurlyBracetMultiplier(multiplier) == multiplier.sign = "CurlyBracet"

isMultiplied(multiplier) ==
  \/ isCurlyBracetMultiplier(multiplier)
       /\ (multiplier.min > 1 \/ multiplier.max > 1)
  \/ multiplier.sign = "Asterisk"
  \/ multiplier.sign = "PlusSign"
  \/ multiplier.sign = "HashMark"
  \/ multiplier.sign = "ExclamationPoint"

\* faulty variant: && is not taken for a mandatory combinator
isMandatoryCombinator_JuxtapositionOnly(entity) ==
  entity.combinator = "Juxtaposition"

isMandatoryCombinator(entity) ==
  entity.combinator = "DoubleAmpersand" \/ entity.combinator = "Juxtaposition"

\* entity.multiplier && (...): an absent multiplier is falsy
isOptionalEntity(entity) ==
  /\ entity.multiplier # NoMultiplier
  /\ \/ isCurlyBracetMultiplier(entity.multiplier) /\ entity.multiplier.min > 0
     \/ entity.multiplier.sign = "Asterisk"
     \/ entity.multiplier.sign = "QuestionMark"

\* es.indexOf(e), 1-based: the first position holding the same object
indexOf(es, e) ==
  IF \E k \in 1..Len(es) : es[k].ref = e.ref
  THEN CHOOSE k \in 1..Len(es) :
         es[k].ref = e.ref /\ \A j \in 1..(k - 1) : es[j].ref # e.ref
  ELSE 0

\* es[k] of JavaScript, 1-based: undefined outside the array
At(es, k) == IF k \in 1..Len(es) THEN es[k] ELSE Undefined

previousEntity(es, currentEntity) == At(es, indexOf(es, currentEntity) - 1)

nextEntity(es, currentEntity) == At(es, indexOf(es, currentEntity) + 1)

\* the first loop of shouldIncludeComponent from position i down:
\* FALSE is "return false", TRUE is leaving the loop
RECURSIVE ScanLeft(_, _)
ScanLeft(es, i) ==
  IF i < 1 THEN TRUE
  ELSE IF es[i].entity = "Combinator"
       THEN IF isMandatoryCombinator(es[i])
            THEN LET previous == previousEntity(es, es[i])
                 IN  IF previous # Undefined /\ ~isOptionalEntity(previous)
                     THEN FALSE
                     ELSE ScanLeft(es, i - 1)
            ELSE TRUE
       ELSE ScanLeft(es, i - 1)

\* the second loop of shouldIncludeComponent from position i up
RECURSIVE ScanRight(_, _)
ScanRight(es, i) ==
  IF i > Len(es) THEN TRUE
  ELSE IF es[i].entity = "Combinator"
       THEN IF isMandatoryCombinator(es[i])
            THEN LET next == nextEntity(es, es[i])
                 IN  IF next # Undefined /\ ~isOptionalEntity(next)
                     THEN FALSE
                     ELSE ScanRight(es, i + 1)
            ELSE TRUE
       ELSE ScanRight(es, i + 1)

shouldIncludeComponent(es, component) ==
  /\ ScanLeft(es, indexOf(es, component) - 1)
  /\ ScanRight(es, indexOf(es, component) + 1)

(***************************************************************************)
(* The datasets of mdn-data the reducer consults.  Names are sequences of  *)
(* tokens; a data-type value is the name between "<" and ">", a quoted     *)
(* property reference has the name between two "'" tokens.                 *)
(***************************************************************************)
\* Object.keys(cssTypes): the elementary grammar names
cssTypes == {<<"number">>, <<"integer">>, <<"length">>, <<"url">>, <<"position">>}

\* the names with a composite grammar definition
syntaxes == {<<"position">>, <<"color">>}

Bare(name) == <<"<">> \o name \o <<">">>

Quoted(name) == <<"<", "'">> \o name \o <<"'", ">">>

kwLeft == <<"l", "e", "f", "t">>

kwRight == <<"r", "i", "g", "h", "t">>

kwRed == <<"r", "e", "d">>

kwBlue == <<"b", "l", "u", "e">>

\* the objects of an array get their identities: every component and
\* function is an object of its own; with shared, the combinators of one
\* kind are one object (a parser pushing a constant per kind), otherwise
\* every combinator is an object of its own
WithRefs(es, shared) ==
  [k \in 1..Len(es) |->
     [es[k] EXCEPT !.ref =
        IF shared /\ isCombinator(es[k])
        THEN CHOOSE j \in 1..k :
               /\ es[j].combinator = es[k].combinator
               /\ \A h \in 1..(j - 1) : es[h].combinator # es[k].combinator
        ELSE k]]

\* items[1] combs[1] items[2] ... items[n]
Interleave(items, combs) ==
  [k \in 1..(2 * Len(items) - 1) |->
     IF k % 2 = 1 THEN items[(k + 1) \div 2] ELSE CombinatorEntity(combs[k \div 2])]

\* parse("red | blue")
grammarColor ==
  WithRefs(Interleave(<<Keyword(kwRed, NoMultiplier), Keyword(kwBlue, NoMultiplier)>>,
                      <<"SingleBar">>), FALSE)

\* parse("left | <'color'>")
grammarPing ==
  WithRefs(Interleave(<<Keyword(kwLeft, NoMultiplier),
                        DataType(Quoted(<<"color">>), NoMultiplier)>>,
                      <<"SingleBar">>), FALSE)

\* parse("left | <'pong'>")
grammarPingCyclic ==
  WithRefs(Interleave(<<Keyword(kwLeft, NoMultiplier),
                        DataType(Quoted(<<"pong">>), NoMultiplier)>>,
                      <<"SingleBar">>), FALSE)

\* parse("[ <'ping'> ]?")
grammarPong ==
  WithRefs(<<Group(WithRefs(<<DataType(Quoted(<<"ping">>), NoMultiplier)>>, FALSE),
                   Sign("QuestionMark"))>>, FALSE)

\* parse("<'self'>#")
grammarSelf ==
  WithRefs(<<DataType(Quoted(<<"self">>), Sign("HashMark"))>>, FALSE)

\* property datasets, each mapping a name to parse(properties[name].syntax)
AcyclicProperties ==
  [name \in {<<"color">>, <<"ping">>} |->
     IF name = <<"color">> THEN grammarColor ELSE grammarPing]

CyclicProperties ==
  [name \in {<<"color">>, <<"ping">>, <<"pong">>, <<"self">>} |->
     CASE name = <<"color">> -> grammarColor
       [] name = <<"ping">>  -> grammarPingCyclic
       [] name = <<"pong">>  -> grammarPong
       [] name = <<"self">>  -> grammarSelf]

Datasets == {AcyclicProperties, CyclicProperties}

(***************************************************************************)
(* The scalar-type catalog.                                                *)
(***************************************************************************)
\* faulty variant: names with a composite grammar are flattened to String too
basicEntry_IgnoresSyntaxes(name) ==
  IF name \in {<<"number">>, <<"integer">>} THEN <<TNumber>>
  ELSE IF name = <<"length">> THEN <<TLength>>
  ELSE <<TString>>

\* what the reduce callback stores under name: a one-element sequence, or
\* the empty sequence when it stores nothing
basicEntry(name) ==
  IF name \in {<<"number">>, <<"integer">>} THEN <<TNumber>>
  ELSE IF name = <<"length">> THEN <<TLength>>
  ELSE IF ~(name \in syntaxes) THEN <<TString>>
  ELSE <<>>

basicDataTypeNames ==
  {name \in cssTypes \cup {<<"hex-color">>} : basicEntry(name) # <<>>}

basicDataTypes == [name \in basicDataTypeNames |-> basicEntry(name)[1]]

(***************************************************************************)
(* The data-type branch: the name and the property match.                  *)
(***************************************************************************)
\* entity.value.slice(1, -1)
Slice1(v) == SubSeq(v, 2, Len(v) - 1)

\* /'([^']+)'/.exec(value): the leftmost "'" followed by one or more
\* tokens other than "'" and a closing "'"; <<a, b>> are the positions of
\* the two quotes, <<>> is null
PropertyMatch(v) ==
  LET opens == {a \in 1..Len(v) :
                  /\ v[a] = "'"
                  /\ \E b \in (a + 2)..Len(v) :
                       /\ v[b] = "'"
                       /\ \A j \in (a + 1)..(b - 1) : v[j] # "'"}
  IN  IF opens = {} THEN <<>>
      ELSE LET a == CHOOSE x \in opens : \A y \in opens : x <= y
               b == CHOOSE x \in (a + 2)..Len(v) :
                      v[x] = "'" /\ \A j \in (a + 1)..(x - 1) : v[j] # "'"
           IN  <<a, b>>

\* property[1]
PropertyName(v) ==
  LET m == PropertyMatch(v) IN SubSeq(v, m[1] + 1, m[2] - 1)

\* the String(Number(entity.value)) === entity.value test of a keyword
IsNumericKeyword(value) == String(Number(value)) = value

\* what a Keyword contributes to types
keywordType(types, value) ==
  IF IsNumericKeyword(value)
  THEN addNumericLiteral(types, Number(value))
  ELSE addStringLiteral(types, value)

\* faulty variant: the fallback of a multiplied reference or group is lost
multipliedFallback_Never(types, entity) == types

\* if (entity.multiplier && isMultiplied(entity.multiplier)) addString
multipliedFallback(types, entity) ==
  IF entity.multiplier # NoMultiplier /\ isMultiplied(entity.multiplier)
  THEN addString(types)
  ELSE types

\* the combinators for which typing adds String
combinatorAddsString(entity) ==
  entity.combinator = "DoubleBar" \/ isMandatoryCombinator(entity)

(***************************************************************************)
(* Inputs: the entity sequences handed to typing.                          *)
(***************************************************************************)
Combinators == {"Juxtaposition", "DoubleAmpersand", "DoubleBar", "SingleBar"}

Multipliers ==
  {NoMultiplier, Sign("QuestionMark"), Sign("Asterisk"), Sign("PlusSign"),
   Sign("HashMark"), Sign("ExclamationPoint"),
   CurlyBracet(0, 3), CurlyBracet(1, 3), CurlyBracet(1, 1), CurlyBracet(2, 2)}

KeywordValues == {kwLeft, kwRight, strNaN, <<"1">>, <<"4", "2">>, <<"0", "0", "7">>,
                  <<"+", "0">>, <<"-", "1">>, strInfinity}

DataTypeValues ==
  {Bare(<<"number">>), Bare(<<"integer">>), Bare(<<"length">>), Bare(<<"url">>),
   Bare(<<"hex-color">>), Bare(<<"position">>), Bare(<<"color">>), Bare(<<"foo">>),
   Quoted(<<"color">>), Quoted(<<"ping">>), Quoted(<<"self">>), Quoted(<<"nope">>)}

\* [ left | right ]
groupAlternation ==
  WithRefs(Interleave(<<Keyword(kwLeft, NoMultiplier), Keyword(kwRight, NoMultiplier)>>,
                      <<"SingleBar">>), FALSE)

\* [ [ right <length> ]# || <'color'> ]
groupNested ==
  WithRefs(Interleave(
    <<Group(WithRefs(Interleave(<<Keyword(kwRight, NoMultiplier),
                                  DataType(Bare(<<"length">>), NoMultiplier)>>,
                                <<"Juxtaposition">>), FALSE), Sign("HashMark")),
      DataType(Quoted(<<"color">>), NoMultiplier)>>,
    <<"DoubleBar">>), FALSE)

GroupBodies == {groupAlternation, groupNested}

\* every single component or function with every multiplier
SingleAtoms ==
  {Keyword(v, m) : v \in KeywordValues, m \in Multipliers}
    \cup {DataType(v, m) : v \in DataTypeValues, m \in Multipliers}
    \cup {Group(b, m) : b \in GroupBodies, m \in Multipliers}
    \cup {Function(m) : m \in {NoMultiplier, Sign("HashMark")}}

\* the components and functions of the wide family
WideAtoms ==
  {Keyword(kwLeft, NoMultiplier), Keyword(kwLeft, Sign("PlusSign")),
   Keyword(strNaN, NoMultiplier), Keyword(<<"1">>, NoMultiplier),
   DataType(Bare(<<"length">>), Sign("Asterisk")),
   DataType(Bare(<<"position">>), NoMultiplier),
   DataType(Quoted(<<"color">>), Sign("HashMark")),
   DataType(Quoted(<<"ping">>), NoMultiplier),
   Group(groupAlternation, Sign("PlusSign")),
   Function(NoMultiplier)}

\* the keywords of the gate family: one value per position
GateValues == <<kwLeft, kwRight, kwRed, kwBlue, strNaN>>

GateMultipliers ==
  {NoMultiplier, Sign("QuestionMark"), CurlyBracet(0, 3), CurlyBracet(1, 3)}

\* one component or function
SingleInput(es) == \E a \in SingleAtoms : es = WithRefs(<<a>>, FALSE)

\* two to MaxWide components and functions of the wide family, with
\* combinators between them
WideInput(es) ==
  \E n \in 2..MaxWide :
    \E items \in [1..n -> WideAtoms], combs \in [1..(n - 1) -> Combinators] :
      es = WithRefs(Interleave(items, combs), FALSE)

\* two to MaxItems keywords with multipliers and combinators between them,
\* the combinator objects shared per kind or not
GateInput(es) ==
  \E n \in 2..MaxItems :
    \E ms \in [1..n -> GateMultipliers], combs \in [1..(n - 1) -> Combinators],
       shared \in BOOLEAN :
      es = WithRefs(Interleave([k \in 1..n |-> Keyword(GateValues[k], ms[k])], combs),
                    shared)

(***************************************************************************)
(* The call stack of typing: a frame is one activation, with its array,    *)
(* the position of its for-loop and its local types.                       *)
(***************************************************************************)
Frame(es) == [entities |-> es, i |-> 1, types |-> <<>>]

Top == stack[Len(stack)]

Cur == Top.entities[Top.i]

Running == pc = "run" /\ stack # <<>> /\ Top.i <= Len(Top.entities)

Included == isComponent(Cur) /\ shouldIncludeComponent(Top.entities, Cur)

\* the name a DataType entity refers to
CurValue == Slice1(Cur.value)

IsPropertyReference == Cur.component = "DataType" /\ PropertyMatch(CurValue) # <<>>

\* the loop goes on to the next entity with the given types
Advance(types) ==
  stack' = [stack EXCEPT ![Len(stack)] = [@ EXCEPT !.i = @ + 1, !.types = types]]

\* typing(es) is called from the current entity, whose fallback is added first
Enter(es) ==
  stack' = Append([stack EXCEPT ![Len(stack)] =
                     [@ EXCEPT !.types = multipliedFallback(@, Cur)]],
                  Frame(es))

Init ==
  /\ \/ SingleInput(entities) /\ properties \in Datasets
     \/ WideInput(entities) /\ properties \in Datasets
     \/ GateInput(entities) /\ properties = AcyclicProperties
  /\ stack = <<>>
  /\ pc = "call"
  /\ op = "none"
  /\ result = <<>>
  /\ arg = TString

\* typing(entities) is called
Call ==
  /\ pc = "call"
  /\ stack' = <<Frame(entities)>>
  /\ pc' = "run"
  /\ op' = "Call"
  /\ UNCHANGED <<entities, properties, result, arg>>

\* a component the gate excludes
Excluded ==
  /\ Running /\ isComponent(Cur) /\ ~Included
  /\ Advance(Top.types)
  /\ op' = "Excluded"
  /\ UNCHANGED <<entities, properties, pc, result, arg>>

KeywordStep ==
  /\ Running /\ Included /\ Cur.component = "Keyword"
  /\ Advance(keywordType(Top.types, Cur.value))
  /\ op' = "Keyword"
  /\ UNCHANGED <<entities, properties, pc, result, arg>>

\* a quoted reference to a known property: typing(parse(syntax)) is called
PropertyCall ==
  /\ Running /\ Included /\ IsPropertyReference
  /\ PropertyName(CurValue) \in DOMAIN properties
  /\ Len(stack) < StackLimit
  /\ Enter(properties[PropertyName(CurValue)])
  /\ op' = "PropertyCall"
  /\ UNCHANGED <<entities, properties, pc, result, arg>>

UnknownProperty ==
  /\ Running /\ Included /\ IsPropertyReference
  /\ PropertyName(CurValue) \notin DOMAIN properties
  /\ Advance(addString(Top.types))
  /\ op' = "UnknownProperty"
  /\ UNCHANGED <<entities, properties, pc, result, arg>>

BasicDataType ==
  /\ Running /\ Included /\ Cur.component = "DataType" /\ ~IsPropertyReference
  /\ CurValue \in DOMAIN basicDataTypes
  /\ Advance(addType(Top.types, basicDataTypes[CurValue]))
  /\ op' = "BasicDataType"
  /\ UNCHANGED <<entities, properties, pc, result, arg>>

SymbolicDataType ==
  /\ Running /\ Included /\ Cur.component = "DataType" /\ ~IsPropertyReference
  /\ CurValue \notin DOMAIN basicDataTypes
  /\ Advance(addDataType(Top.types, CurValue))
  /\ op' = "SymbolicDataType"
  /\ UNCHANGED <<entities, properties, pc, result, arg>>

\* a group: typing(entity.entities) is called
GroupCall ==
  /\ Running /\ Included /\ Cur.component = "Group"
  /\ Len(stack) < StackLimit
  /\ Enter(Cur.entities)
  /\ op' = "GroupCall"
  /\ UNCHANGED <<entities, properties, pc, result, arg>>

CombinatorStep ==
  /\ Running /\ isCombinator(Cur)
  /\ Advance(IF combinatorAddsString(Cur) THEN addString(Top.types) ELSE Top.types)
  /\ op' = "Combinator"
  /\ UNCHANGED <<entities, properties, pc, result, arg>>

FunctionStep ==
  /\ Running /\ isFunction(Cur)
  /\ Advance(addString(Top.types))
  /\ op' = "Function"
  /\ UNCHANGED <<entities, properties, pc, result, arg>>

\* a nested typing returns: the caller merges the returned types
ReturnToCaller ==
  /\ pc = "run" /\ Len(stack) > 1 /\ Top.i > Len(Top.entities)
  /\ stack' = [k \in 1..(Len(stack) - 1) |->
                 IF k = Len(stack) - 1
                 THEN [stack[k] EXCEPT !.i = @ + 1,
                                       !.types = addAll(@, Top.types)]
                 ELSE stack[k]]
  /\ op' = "Return"
  /\ UNCHANGED <<entities, properties, pc, result, arg>>

\* the outermost typing returns types
ReturnResult ==
  /\ pc = "run" /\ Len(stack) = 1 /\ Top.i > Len(Top.entities)
  /\ result' = Top.types
  /\ stack' = <<>>
  /\ pc' = "done"
  /\ op' = "Result"
  /\ UNCHANGED <<entities, properties, arg>>

\* a nested call with the call stack exhausted: RangeError, no result
StackOverflow ==
  /\ Running /\ Included
  /\ \/ Cur.component = "Group"
     \/ IsPropertyReference /\ PropertyName(CurValue) \in DOMAIN properties
  /\ Len(stack) >= StackLimit
  /\ pc' = "overflow"
  /\ op' = "RangeError"
  /\ UNCHANGED <<entities, properties, stack, result, arg>>

Next ==
  \/ Call
  \/ Excluded
  \/ KeywordStep
  \/ PropertyCall
  \/ UnknownProperty
  \/ BasicDataType
  \/ SymbolicDataType
  \/ GroupCall
  \/ CombinatorStep
  \/ FunctionStep
  \/ ReturnToCaller
  \/ ReturnResult
  \/ StackOverflow

Spec == Init /\ [][Next]_vars

(***************************************************************************)
(* addType on its own: a list grown by inserting descriptors one by one.   *)
(***************************************************************************)
Descriptors ==
  {TString, TNumber, TLength, TStringLiteral(kwLeft), TStringLiteral(kwRight),
   TNumericLiteral(Finite(1)), TNumericLiteral(NaN), TDataType(<<"position">>)}

InitAdd ==
  /\ entities = <<>>
  /\ properties = AcyclicProperties
  /\ stack = <<>>
  /\ pc = "addType"
  /\ op = "none"
  /\ result = <<>>
  /\ arg = TString

\* result = addType(result, type)
Insert(type) ==
  /\ pc = "addType"
  /\ Len(result) < MaxTypes
  /\ result' = addType(result, type)
  /\ arg' = type
  /\ op' = "addType"
  /\ UNCHANGED <<entities, properties, stack, pc>>

NextAdd == \E type \in Descriptors : Insert(type)

SpecAdd == InitAdd /\ [][NextAdd]_vars

(***************************************************************************)
(* Vocabulary of the properties.                                           *)
(***************************************************************************)
Range(seq) == {seq[k] : k \in 1..Len(seq)}

NoDuplicates(seq) ==
  \A a, b \in 1..Len(seq) : a # b => seq[a] # seq[b]

IsPrefix(a, b) == Len(a) <= Len(b) /\ SubSeq(b, 1, Len(a)) = a

HasString(types) == TString \in Range(types)

\* "optional" as the specification defines it: a bounded range with
\* minimum 0, zero-or-more, or "?"
SpecOptional(entity) ==
  \/ entity.multiplier.sign = "CurlyBracet" /\ entity.multiplier.min = 0
  \/ entity.multiplier.sign = "Asterisk"
  \/ entity.multiplier.sign = "QuestionMark"

\* "expansive" as the specification defines it
SpecExpansive(multiplier) ==
  \/ multiplier.sign \in {"Asterisk", "PlusSign", "HashMark", "ExclamationPoint"}
  \/ multiplier.sign = "CurlyBracet" /\ multiplier.max > 1

\* the literal descriptor of a keyword
KeywordLiteral(value) ==
  IF IsNumericKeyword(value) THEN TNumericLiteral(Number(value))
  ELSE TStringLiteral(value)

\* the step taken leaves the current frame's types as they are and calls nothing
StepContributesNothing ==
  /\ Len(stack') = Len(stack)
  /\ stack'[Len(stack)].types = Top.types
  /\ pc' = "run"

\* the step taken adds the keyword's literal to the current frame's types
StepContributesKeyword ==
  /\ Len(stack') = Len(stack)
  /\ stack'[Len(stack)].types \in {Top.types, Append(Top.types, KeywordLiteral(Cur.value))}
  /\ KeywordLiteral(Cur.value) \in Range(stack'[Len(stack)].types)

(***************************************************************************)
(* C1.  The list typing builds never holds two structurally equal          *)
(* descriptors, and descriptors stay where they were first inserted: in    *)
(* every step each frame's types only grows at its end and has no          *)
(* duplicates, and the value returned has none.                            *)
(***************************************************************************)
C1_DedupFirstSeen ==
  [][/\ \A k \in 1..Len(stack) :
          k <= Len(stack') =>
            /\ IsPrefix(stack[k].types, stack'[k].types)
            /\ NoDuplicates(stack'[k].types)
     /\ pc' = "done" => NoDuplicates(result')]_vars

(***************************************************************************)
(* C2.  A component right after a Juxtaposition whose left operand has no  *)
(* optional multiplier contributes nothing (nor is anything called for     *)
(* it), and the left operand, when it is a keyword, still has its literal  *)
(* in the result.                                                          *)
(***************************************************************************)
C2Case(es, i) ==
  /\ i >= 3 /\ i <= Len(es)
  /\ isComponent(es[i])
  /\ es[i - 1].combinator = "Juxtaposition"
  /\ ~SpecOptional(es[i - 2])

C2_JuxtaposedExcluded ==
  [][/\ (Running /\ C2Case(Top.entities, Top.i)) => StepContributesNothing
     /\ pc' = "done" =>
          \A i \in 1..Len(entities) :
            (C2Case(entities, i) /\ entities[i - 2].component = "Keyword")
              => KeywordLiteral(entities[i - 2].value) \in Range(result')]_vars

(***************************************************************************)
(* C3.  Across a mandatory combinator a neighbour counts as optional       *)
(* exactly when its multiplier is a bounded range with minimum 0, "*" or   *)
(* "?": in a sequence x comb y with comb mandatory and y a keyword, y      *)
(* contributes its literal when x carries a range with minimum 0 and       *)
(* contributes nothing when x carries a range with minimum >= 1.           *)
(***************************************************************************)
C3Case(es, i) ==
  /\ Len(es) = 3 /\ i = 3
  /\ isMandatoryCombinator(es[2])
  /\ es[3].component = "Keyword"
  /\ es[1].multiplier.sign = "CurlyBracet"

C3_OptionalNeighbour ==
  [][(Running /\ C3Case(Top.entities, Top.i)) =>
       /\ isOptionalEntity(Top.entities[1]) <=> SpecOptional(Top.entities[1])
       /\ Top.entities[1].multiplier.min = 0 => StepContributesKeyword
       /\ Top.entities[1].multiplier.min >= 1 => StepContributesNothing]_vars

(***************************************************************************)
(* C4.  If a component of the sequence carries a one-or-more,              *)
(* zero-or-more or comma-repeated multiplier, generic String is in the     *)
(* result.                                                                 *)
(***************************************************************************)
C4_RepeatedGivesString ==
  (/\ pc = "done"
   /\ \E k \in 1..Len(entities) :
        /\ isComponent(entities[k])
        /\ entities[k].multiplier.sign \in {"PlusSign", "Asterisk", "HashMark"})
    => HasString(result)

(***************************************************************************)
(* C5.  A sequence holding an && or || combinator reduces to a result      *)
(* with generic String: in every frame, once the loop has passed such a    *)
(* combinator the frame's types holds String, and so does the value        *)
(* returned for the outermost sequence.                                    *)
(***************************************************************************)
IsUnordered(entity) == entity.combinator \in {"DoubleAmpersand", "DoubleBar"}

C5_UnorderedGivesString ==
  /\ \A f \in 1..Len(stack) :
       (\E k \in 1..Len(stack[f].entities) :
          k < stack[f].i /\ IsUnordered(stack[f].entities[k]))
         => HasString(stack[f].types)
  /\ (pc = "done" /\ \E k \in 1..Len(entities) : IsUnordered(entities[k]))
       => HasString(result)

C5_Witness ==
  /\ pc = "done"
  /\ Len(entities) = 3
  /\ entities[2].combinator = "DoubleAmpersand"
  /\ entities[1].multiplier = NoMultiplier
  /\ entities[3].multiplier = NoMultiplier
  /\ result = <<TString>>

(***************************************************************************)
(* C6.  A sequence of unmultiplied keywords separated by | reduces to      *)
(* exactly the literals of its keywords, each once, in the order in which  *)
(* they first occur, without generic String.                               *)
(***************************************************************************)
PureAlternation(es) ==
  /\ Len(es) >= 3
  /\ \A k \in 1..Len(es) :
       IF k % 2 = 1
       THEN es[k].component = "Keyword" /\ es[k].multiplier = NoMultiplier
       ELSE es[k].combinator = "SingleBar"

\* the literals of the keywords among es[1..k], each once, in the order of
\* their first occurrence
RECURSIVE LiteralsUpTo(_, _)
LiteralsUpTo(es, k) ==
  IF k = 0 THEN <<>>
  ELSE LET before == LiteralsUpTo(es, k - 1)
       IN  IF /\ es[k].component = "Keyword"
              /\ KeywordLiteral(es[k].value) \notin Range(before)
           THEN Append(before, KeywordLiteral(es[k].value))
           ELSE before

C6_PureAlternation ==
  (pc = "done" /\ PureAlternation(entities)) =>
    /\ result = LiteralsUpTo(entities, Len(entities))
    /\ ~HasString(result)

(***************************************************************************)
(* C7.  A sequence that is one quoted property reference: for a known      *)
(* property the result is the result of the property's grammar, preceded   *)
(* by generic String when the reference carries an expansive multiplier    *)
(* (red | blue gives red, blue, or String, red, blue); for an unknown      *)
(* property it is String alone.                                            *)
(***************************************************************************)
SingleReference ==
  /\ Len(entities) = 1
  /\ entities[1].component = "DataType"
  /\ \E k \in 1..Len(entities[1].value) : entities[1].value[k] = "'"

ReferencedName == SubSeq(entities[1].value, 3, Len(entities[1].value) - 2)

WithoutString(types) == SelectSeq(types, LAMBDA t : t # TString)

RedBlue == <<TStringLiteral(kwRed), TStringLiteral(kwBlue)>>

C7_SingleReference ==
  [][SingleReference =>
       /\ (pc = "run" /\ Len(stack) = 2 /\ Len(stack') = 1) =>
            stack'[1].types =
              IF SpecExpansive(entities[1].multiplier)
              THEN <<TString>> \o WithoutString(Top.types)
              ELSE Top.types
       /\ pc' = "done" =>
            /\ result' = stack[1].types
            /\ ReferencedName \notin DOMAIN properties => result' = <<TString>>
            /\ ReferencedName = <<"color">> =>
                 result' = IF SpecExpansive(entities[1].multiplier)
                           THEN <<TString>> \o RedBlue
                           ELSE RedBlue]_vars

C7_Witness ==
  /\ pc = "done"
  /\ SingleReference
  /\ ReferencedName = <<"color">>
  /\ entities[1].multiplier = Sign("HashMark")
  /\ result = <<TString>> \o RedBlue

(***************************************************************************)
(* C8.  An included unquoted data-type reference adds exactly one          *)
(* descriptor, fixed by its name: Number for number and integer, Length    *)
(* for length, String for another elementary name without a composite      *)
(* grammar, and DataType(name) for every other name; nothing is called     *)
(* and nothing faults.                                                     *)
(***************************************************************************)
ScalarOf(name) ==
  IF name \in {<<"number">>, <<"integer">>} THEN TNumber
  ELSE IF name = <<"length">> THEN TLength
  ELSE IF name \in (cssTypes \cup {<<"hex-color">>}) \ syntaxes THEN TString
  ELSE TDataType(name)

BareName(value) == SubSeq(value, 2, Len(value) - 1)

IsBareReference(entity) ==
  /\ entity.component = "DataType"
  /\ \A k \in 1..Len(entity.value) : entity.value[k] # "'"

C8_BareDataType ==
  [][(Running /\ Included /\ IsBareReference(Cur)) =>
       LET d == ScalarOf(BareName(Cur.value))
       IN  /\ Len(stack') = Len(stack)
           /\ pc' = "run"
           /\ stack'[Len(stack)].i = Top.i + 1
           /\ stack'[Len(stack)].types =
                IF d \in Range(Top.types) THEN Top.types ELSE Append(Top.types, d)]_vars

C8_Witness ==
  /\ pc = "done"
  /\ Len(entities) = 1
  /\ IsBareReference(entities[1])
  /\ BareName(entities[1].value) = <<"position">>
  /\ result = <<TDataType(<<"position">>)>>

(***************************************************************************)
(* C9.  Every reduction returns a result: the call never ends in a         *)
(* RangeError, whatever the property dataset.                              *)
(***************************************************************************)
C9_Total == pc # "overflow"

(***************************************************************************)
(* C10.  addType is idempotent and order-preserving: inserting into a list *)
(* without duplicates a descriptor that is already in it leaves the list   *)
(* as it is, inserting one that is not appends it, and inserting it once   *)
(* more changes nothing.                                                   *)
(***************************************************************************)
C10_InsertIdempotent ==
  [][NoDuplicates(result) =>
       /\ arg' \in Range(result) => result' = result
       /\ arg' \notin Range(result) => result' = Append(result, arg')
       /\ addType(result', arg') = result']_vars

====
